---- MODULE Spec2Model ----
(***************************************************************************)
(* Model of the crypto-signal-tool signal engine:                          *)
(*   strategies/base.js       SignalStrategy, createSignalMarker,          *)
(*                            toChartMarker                                *)
(*   strategies/feargreed.js  FearGreedStrategy                            *)
(*   main.js                  CryptoSignalApp, CandlestickChart            *)
(*                                                                         *)
(* Three specifications are given.  Spec is the application: its state is  *)
(* CryptoSignalApp.state, the registered FearGreedStrategy and the chart / *)
(* signal-history outputs, and its actions are the event handlers.         *)
(* SpecStrategy is the FearGreedStrategy object on its own: the inputs of  *)
(* a call are drawn in the initial state and the methods are applied to    *)
(* them between arbitrary setEnabled / updateSettings calls.  SpecAsync is *)
(* the application with its _fetchAllData calls in flight and its          *)
(* auto-update timer.                                                      *)
(***************************************************************************)
EXTENDS Integers, Sequences, FiniteSets

----------------------------------------------------------------------------
(* JavaScript values.  A value is a record with a tag t; numbers carry the *)
(* integer in v, arrays carry the sequence in v.                           *)

Num(n) == [t |-> "number", v |-> n]
NaN == [t |-> "NaN", v |-> 0]
Undefined == [t |-> "undefined", v |-> 0]
Null == [t |-> "null", v |-> 0]

Arr(s) == [t |-> "array", v |-> s]
UndefinedArr == [t |-> "undefined", v |-> <<>>]

\* ToNumber as applied by the relational operators: null is 0, undefined is NaN.
ToNumber(x) ==
    IF x.t = "null" THEN Num(0)
    ELSE IF x.t = "undefined" THEN NaN
    ELSE x

\* a <= b in JavaScript: false as soon as one side is NaN.
JsLe(a, b) ==
    LET x == ToNumber(a)
        y == ToNumber(b)
    IN  x.t = "number" /\ y.t = "number" /\ x.v <= y.v

\* a >= b in JavaScript.
JsGe(a, b) ==
    LET x == ToNumber(a)
        y == ToNumber(b)
    IN  x.t = "number" /\ y.t = "number" /\ x.v >= y.v

\* Math.min(a, b) and Math.max(a, b): NaN if either argument converts to NaN.
MathMin(a, b) ==
    LET x == ToNumber(a)
        y == ToNumber(b)
    IN  IF x.t = "NaN" \/ y.t = "NaN" THEN NaN
        ELSE IF x.v <= y.v THEN x ELSE y

MathMax(a, b) ==
    LET x == ToNumber(a)
        y == ToNumber(b)
    IN  IF x.t = "NaN" \/ y.t = "NaN" THEN NaN
        ELSE IF x.v >= y.v THEN x ELSE y

\* parseInt of a decimal digit string, the string given as its digits.
RECURSIVE parseIntDigits(_, _)
parseIntDigits(digits, acc) ==
    IF digits = <<>> THEN acc
    ELSE parseIntDigits(Tail(digits), acc * 10 + Head(digits))

\* parseInt(x): a digit string gives its number, the empty string gives NaN,
\* an integer number or NaN is returned as it is.
parseInt(x) ==
    IF x.t = "string"
    THEN IF x.v = <<>> THEN NaN ELSE Num(parseIntDigits(x.v, 0))
    ELSE IF x.t = "number" THEN x
    ELSE NaN

Str(digits) == [t |-> "string", v |-> digits]

----------------------------------------------------------------------------
(* Date keys.  A date key "YYYY-MM-DD" is the triple <<YYYY, MM, DD>>; the *)
(* lexical order of the zero-padded strings is the lexicographic order of  *)
(* the triples.                                                            *)

\* Month lengths of the leap year 2024.
MonthLengths2024 == <<31, 29, 31, 30, 31, 30, 31, 31, 30, 31, 30, 31>>

RECURSIVE civilFromDayOfYear(_, _)
civilFromDayOfYear(month, day) ==
    IF day < MonthLengths2024[month] THEN <<2024, month, day + 1>>
    ELSE civilFromDayOfYear(month + 1, day - MonthLengths2024[month])

\* new Date(timestamp * 1000).toISOString().split('T')[0] for an epoch-second
\* timestamp of the year 2024: the UTC calendar date, time of day dropped
\* (86400 seconds a day; 2024-01-01 is day 19723 of the epoch).
toISODate(timestamp) ==
    civilFromDayOfYear(1, (timestamp \div 86400) - 19723)

\* a.localeCompare(b) on date keys: negative, zero or positive.
localeCompare(a, b) ==
    IF a[1] # b[1] THEN a[1] - b[1]
    ELSE IF a[2] # b[2] THEN a[2] - b[2]
    ELSE a[3] - b[3]

----------------------------------------------------------------------------
(* strategies/base.js and strategies/feargreed.js                          *)

createSignalMarker(time, type, text, reason, strategyId) ==
    [time |-> time, type |-> type, text |-> text, reason |-> reason,
     strategyId |-> strategyId]

\* new FearGreedStrategy(): SignalStrategy's constructor, then the thresholds.
FearGreedStrategy ==
    [id |-> "feargreed", name |-> "Fear & Greed Index", enabled |-> TRUE,
     buyThreshold |-> Num(20), sellThreshold |-> Num(80)]

setEnabled(self, enabled) == [self EXCEPT !.enabled = enabled]

isEnabled(self) == self.enabled

_getClassification(index) ==
    IF JsLe(index, Num(20)) THEN "Extreme Fear"
    ELSE IF JsLe(index, Num(40)) THEN "Fear"
    ELSE IF JsLe(index, Num(60)) THEN "Neutral"
    ELSE IF JsLe(index, Num(80)) THEN "Greed"
    ELSE "Extreme Greed"

\* getFearGreedClassification with the comparisons strict.
getFearGreedClassification_strict(index) ==
    IF JsLe(index, Num(20)) /\ index # Num(20)
    THEN [classification |-> "Extreme Fear", cssClass |-> "extreme-fear"]
    ELSE IF JsLe(index, Num(40)) /\ index # Num(40)
    THEN [classification |-> "Fear", cssClass |-> "fear"]
    ELSE IF JsLe(index, Num(60)) /\ index # Num(60)
    THEN [classification |-> "Neutral", cssClass |-> "neutral"]
    ELSE IF JsLe(index, Num(80)) /\ index # Num(80)
    THEN [classification |-> "Greed", cssClass |-> "greed"]
    ELSE [classification |-> "Extreme Greed", cssClass |-> "extreme-greed"]

\* The exported helper of strategies/feargreed.js.
getFearGreedClassification(index) ==
    IF JsLe(index, Num(20))
    THEN [classification |-> "Extreme Fear", cssClass |-> "extreme-fear"]
    ELSE IF JsLe(index, Num(40))
    THEN [classification |-> "Fear", cssClass |-> "fear"]
    ELSE IF JsLe(index, Num(60))
    THEN [classification |-> "Neutral", cssClass |-> "neutral"]
    ELSE IF JsLe(index, Num(80))
    THEN [classification |-> "Greed", cssClass |-> "greed"]
    ELSE [classification |-> "Extreme Greed", cssClass |-> "extreme-greed"]

\* getFearGreedText of api/feargreed.js, the text of the badge.
getFearGreedText(value) ==
    IF JsLe(value, Num(20)) THEN "Extreme Fear"
    ELSE IF JsLe(value, Num(40)) THEN "Fear"
    ELSE IF JsLe(value, Num(60)) THEN "Neutral"
    ELSE IF JsLe(value, Num(80)) THEN "Greed"
    ELSE "Extreme Greed"

\* The template literal `FG:${index}`: the prefix and the interpolated value.
FGText(index) == <<"FG:", index>>

\* _evaluateIndex with the comparisons strict.
_evaluateIndex_strict(self, index, time) ==
    IF JsLe(index, self.buyThreshold) /\ index # self.buyThreshold
    THEN <<createSignalMarker(time, "buy", FGText(index),
                              _getClassification(index), self.id)>>
    ELSE IF JsGe(index, self.sellThreshold) /\ index # self.sellThreshold
    THEN <<createSignalMarker(time, "sell", FGText(index),
                              _getClassification(index), self.id)>>
    ELSE <<>>

\* _evaluateIndex with the sell check made first.
_evaluateIndex_sellFirst(self, index, time) ==
    IF JsGe(index, self.sellThreshold)
    THEN <<createSignalMarker(time, "sell", FGText(index),
                              _getClassification(index), self.id)>>
    ELSE IF JsLe(index, self.buyThreshold)
    THEN <<createSignalMarker(time, "buy", FGText(index),
                              _getClassification(index), self.id)>>
    ELSE <<>>

\* Returns the sequence of the markers returned: <<>> stands for null.
_evaluateIndex(self, index, time) ==
    IF JsLe(index, self.buyThreshold)
    THEN <<createSignalMarker(time, "buy", FGText(index),
                              _getClassification(index), self.id)>>
    ELSE IF JsGe(index, self.sellThreshold)
    THEN <<createSignalMarker(time, "sell", FGText(index),
                              _getClassification(index), self.id)>>
    ELSE <<>>

updateSettings(self, settings) ==
    LET s1 == IF settings.buyThreshold.t # "undefined"
              THEN [self EXCEPT !.buyThreshold =
                        MathMax(Num(0), MathMin(Num(100), settings.buyThreshold))]
              ELSE self
    IN  IF settings.sellThreshold.t # "undefined"
        THEN [s1 EXCEPT !.sellThreshold =
                  MathMax(Num(0), MathMin(Num(100), settings.sellThreshold))]
        ELSE s1

\* candleMap.has that finds every date.
candleMapHas_always(candles, dateStr) == TRUE

\* candleMap.has(dateStr) after candleMap.set(candle.time, candle) for each candle.
candleMapHas(candles, dateStr) ==
    \E i \in 1..Len(candles) : candles[i].time = dateStr

\* The body of fearGreedHistory.forEach, folded over the history in order.
\* The result is [threw, value]: toISOString throws on an invalid date.
RECURSIVE historyForEach(_, _, _, _)
historyForEach(self, candles, history, signals) ==
    IF history = <<>> THEN [threw |-> FALSE, value |-> signals]
    ELSE LET fgData == Head(history)
             timestamp == parseInt(fgData.timestamp)
         IN  IF timestamp.t # "number" THEN [threw |-> TRUE, value |-> <<>>]
             ELSE LET dateStr == toISODate(timestamp.v)
                      value == parseInt(fgData.value)
                      signal == IF candleMapHas(candles, dateStr)
                                THEN _evaluateIndex(self, value, dateStr)
                                ELSE <<>>
                  IN  historyForEach(self, candles, Tail(history), signals \o signal)

Returned(signals) == [threw |-> FALSE, value |-> signals]
TypeError == [threw |-> TRUE, value |-> <<>>]

\* calculate with the live mode tried first.
calculate_liveFirst(self, candles, extraData) ==
    IF ~self.enabled THEN Returned(<<>>)
    ELSE LET fearGreedIndex == extraData.fearGreedIndex
             fearGreedHistory == IF extraData.fearGreedHistory.t = "undefined"
                                 THEN Arr(<<>>)
                                 ELSE extraData.fearGreedHistory
         IN  IF fearGreedIndex.t # "undefined" /\ candles.t # "array" THEN TypeError
             ELSE IF fearGreedIndex.t # "undefined" /\ Len(candles.v) > 0
             THEN Returned(_evaluateIndex(self, fearGreedIndex,
                                          candles.v[Len(candles.v)].time))
             ELSE IF Len(fearGreedHistory.v) > 0
             THEN IF candles.t # "array" THEN TypeError
                  ELSE IF Len(candles.v) > 0
                  THEN historyForEach(self, candles.v, fearGreedHistory.v, <<>>)
                  ELSE Returned(<<>>)
             ELSE Returned(<<>>)

\* calculate without the enabled check.
calculate_ignoresEnabled(self, candles, extraData) ==
    LET fearGreedIndex == extraData.fearGreedIndex
        fearGreedHistory == IF extraData.fearGreedHistory.t = "undefined"
                            THEN Arr(<<>>)
                            ELSE extraData.fearGreedHistory
    IN  IF Len(fearGreedHistory.v) > 0 /\ candles.t # "array" THEN TypeError
        ELSE IF Len(fearGreedHistory.v) > 0 /\ Len(candles.v) > 0
        THEN historyForEach(self, candles.v, fearGreedHistory.v, <<>>)
        ELSE IF fearGreedIndex.t # "undefined"
        THEN IF candles.t # "array" THEN TypeError
             ELSE IF Len(candles.v) > 0
             THEN Returned(_evaluateIndex(self, fearGreedIndex,
                                          candles.v[Len(candles.v)].time))
             ELSE Returned(<<>>)
        ELSE Returned(<<>>)

\* calculate(candles, extraData): candles is an array value or undefined,
\* extraData is [fearGreedIndex, fearGreedHistory]; reading .length of an
\* undefined candles throws a TypeError.
calculate(self, candles, extraData) ==
    IF ~self.enabled THEN Returned(<<>>)
    ELSE LET fearGreedIndex == extraData.fearGreedIndex
             fearGreedHistory == IF extraData.fearGreedHistory.t = "undefined"
                                 THEN Arr(<<>>)
                                 ELSE extraData.fearGreedHistory
         IN  IF Len(fearGreedHistory.v) > 0 /\ candles.t # "array" THEN TypeError
             ELSE IF Len(fearGreedHistory.v) > 0 /\ Len(candles.v) > 0
             THEN historyForEach(self, candles.v, fearGreedHistory.v, <<>>)
             ELSE IF fearGreedIndex.t # "undefined"
             THEN IF candles.t # "array" THEN TypeError
                  ELSE IF Len(candles.v) > 0
                  THEN LET latestCandle == candles.v[Len(candles.v)]
                       IN  Returned(_evaluateIndex(self, fearGreedIndex,
                                                   latestCandle.time))
                  ELSE Returned(<<>>)
             ELSE Returned(<<>>)

\* toChartMarker without the default labels.
toChartMarker_noFallback(signal) ==
    IF signal.type = "buy"
    THEN [time |-> signal.time, position |-> "belowBar", color |-> "#00d26a",
          shape |-> "arrowUp", text |-> signal.text]
    ELSE [time |-> signal.time, position |-> "aboveBar", color |-> "#ff6b6b",
          shape |-> "arrowDown", text |-> signal.text]

\* toChartMarker(signal): `signal.text || 'Buy'` takes the default for an
\* empty text.
toChartMarker(signal) ==
    IF signal.type = "buy"
    THEN [time |-> signal.time, position |-> "belowBar", color |-> "#00d26a",
          shape |-> "arrowUp",
          text |-> IF signal.text # <<>> THEN signal.text ELSE <<"Buy">>]
    ELSE [time |-> signal.time, position |-> "aboveBar", color |-> "#ff6b6b",
          shape |-> "arrowDown",
          text |-> IF signal.text # <<>> THEN signal.text ELSE <<"Sell">>]

----------------------------------------------------------------------------
(* main.js: CryptoSignalApp and CandlestickChart                           *)

\* Array.prototype.sort is stable: an element is placed after every element
\* that does not compare greater.  The comparator is
\* sign * a.time.localeCompare(b.time).
RECURSIVE sortInsert(_, _, _)
sortInsert(sorted, x, sign) ==
    IF sorted = <<>> THEN <<x>>
    ELSE IF sign * localeCompare(Head(sorted).time, x.time) <= 0
    THEN <<Head(sorted)>> \o sortInsert(Tail(sorted), x, sign)
    ELSE <<x>> \o sorted

RECURSIVE sortByTime(_, _, _)
sortByTime(items, sorted, sign) ==
    IF items = <<>> THEN sorted
    ELSE sortByTime(Tail(items), sortInsert(sorted, Head(items), sign), sign)

\* The key `${signal.time}-${signal.type}` of the seen map.
signalKey(signal) == <<signal.time, signal.type>>

\* The loop with seen.set on every signal: the last signal of a key
\* replaces the first, at the first one's position.
RECURSIVE seenValues_overwrite(_, _)
seenValues_overwrite(signals, seen) ==
    IF signals = <<>> THEN seen
    ELSE LET signal == Head(signals)
         IN  IF \E i \in 1..Len(seen) : signalKey(seen[i]) = signalKey(signal)
             THEN seenValues_overwrite(Tail(signals),
                      [i \in 1..Len(seen) |->
                          IF signalKey(seen[i]) = signalKey(signal)
                          THEN signal ELSE seen[i]])
             ELSE seenValues_overwrite(Tail(signals), Append(seen, signal))

\* The loop of _deduplicateSignals: seen keeps, in insertion order, the
\* first signal of each key.
RECURSIVE seenValues(_, _)
seenValues(signals, seen) ==
    IF signals = <<>> THEN seen
    ELSE LET signal == Head(signals)
         IN  IF \E i \in 1..Len(seen) : signalKey(seen[i]) = signalKey(signal)
             THEN seenValues(Tail(signals), seen)
             ELSE seenValues(Tail(signals), Append(seen, signal))

\* _deduplicateSignals sorting ascending.
_deduplicateSignals_ascending(signals) ==
    sortByTime(seenValues(signals, <<>>), <<>>, 1)

\* sort((a, b) => b.time.localeCompare(a.time))
_deduplicateSignals(signals) ==
    sortByTime(seenValues(signals, <<>>), <<>>, -1)

\* setMarkers without the sort.
setMarkers_unsorted(signals) ==
    IF Len(signals) = 0 THEN <<>>
    ELSE [i \in 1..Len(signals) |-> toChartMarker(signals[i])]

\* CandlestickChart.setMarkers(signals): the new value of chart.markers.
setMarkers(signals) ==
    IF Len(signals) = 0 THEN <<>>
    ELSE sortByTime([i \in 1..Len(signals) |-> toChartMarker(signals[i])], <<>>, 1)

\* _updateSignalHistory(signals): the new content of the signal-history
\* container, the placeholder or the 10 most recent signals.
_updateSignalHistory(signals) ==
    IF Len(signals) = 0 THEN [content |-> "no-signals", items |-> <<>>]
    ELSE LET recentSignals ==
                 SubSeq(signals, 1, IF Len(signals) < 10 THEN Len(signals) ELSE 10)
         IN  [content |-> "signal-items",
              items |-> [i \in 1..Len(recentSignals) |->
                            [type |-> recentSignals[i].type,
                             time |-> recentSignals[i].time,
                             reason |-> recentSignals[i].reason]]]

\* The for loop of _recalculateSignals: the signals of the enabled
\* strategies, in registration order; an exception of calculate ends it.
RECURSIVE collectSignals(_, _, _, _)
collectSignals(strats, cs, extraData, allSignals) ==
    IF strats = <<>> THEN Returned(allSignals)
    ELSE LET strategy == Head(strats)
         IN  IF isEnabled(strategy)
             THEN LET r == calculate(strategy, cs, extraData)
                  IN  IF r.threw THEN r
                      ELSE collectSignals(Tail(strats), cs, extraData,
                                          allSignals \o r.value)
             ELSE collectSignals(Tail(strats), cs, extraData, allSignals)

\* _recalculateSignals without the guard on the candles.
_recalculateSignals_noGuard(strats, cs, index, history, out) ==
    LET allSignals ==
            collectSignals(strats, cs,
                [fearGreedIndex |-> index, fearGreedHistory |-> history], <<>>)
        uniqueSignals == _deduplicateSignals(allSignals.value)
    IN  IF allSignals.threw THEN out
        ELSE [signals |-> uniqueSignals,
              markers |-> setMarkers(uniqueSignals),
              signalHistory |-> _updateSignalHistory(uniqueSignals)]

\* _recalculateSignals adding the new signals to the timeline it finds.
_recalculateSignals_merge(strats, cs, index, history, out) ==
    IF cs.t # "array" \/ Len(cs.v) = 0 THEN out
    ELSE LET allSignals ==
                 collectSignals(strats, cs,
                     [fearGreedIndex |-> index, fearGreedHistory |-> history], <<>>)
             uniqueSignals == out.signals \o _deduplicateSignals(allSignals.value)
         IN  IF allSignals.threw THEN out
             ELSE [signals |-> uniqueSignals,
                   markers |-> setMarkers(uniqueSignals),
                   signalHistory |-> _updateSignalHistory(uniqueSignals)]

\* _recalculateSignals(): from the outputs before the call (state.signals,
\* chart.markers, the signal-history container) to the outputs after it.
_recalculateSignals(strats, cs, index, history, out) ==
    IF cs.t # "array" \/ Len(cs.v) = 0 THEN out
    ELSE LET allSignals ==
                 collectSignals(strats, cs,
                     [fearGreedIndex |-> index, fearGreedHistory |-> history], <<>>)
             uniqueSignals == _deduplicateSignals(allSignals.value)
         IN  IF allSignals.threw THEN out
             ELSE [signals |-> uniqueSignals,
                   markers |-> setMarkers(uniqueSignals),
                   signalHistory |-> _updateSignalHistory(uniqueSignals)]

\* setInterval(callback, UPDATE_INTERVAL_MS) on the table of the live
\* interval timers: the handle of the new timer, a positive number not in use.
setInterval(liveTimers) ==
    CHOOSE id \in 1..(Cardinality(liveTimers) + 1) :
        id \notin liveTimers /\ \A j \in 1..(id - 1) : j \in liveTimers

\* _startAutoUpdate without the check of a running timer.
_startAutoUpdate_noGuard(timer) ==
    LET id == setInterval(timer.timers)
    IN  [updateInterval |-> Num(id), timers |-> timer.timers \cup {id}]

\* _startAutoUpdate() on [updateInterval, timers]: this.updateInterval and
\* the live interval timers.
_startAutoUpdate(timer) ==
    IF timer.updateInterval # Null THEN timer
    ELSE LET id == setInterval(timer.timers)
         IN  [updateInterval |-> Num(id), timers |-> timer.timers \cup {id}]

\* _stopAutoUpdate(): clearInterval removes the timer of the handle.
_stopAutoUpdate(timer) ==
    IF timer.updateInterval # Null
    THEN [updateInterval |-> Null, timers |-> timer.timers \ {timer.updateInterval.v}]
    ELSE timer

\* strategies.find(s => s.id === id): the index of the first match, 0 if none.
findStrategy(strats, id) ==
    IF \E i \in 1..Len(strats) : strats[i].id = id
    THEN CHOOSE i \in 1..Len(strats) :
             strats[i].id = id /\ \A j \in 1..(i - 1) : strats[j].id # id
    ELSE 0

----------------------------------------------------------------------------
(* State                                                                   *)

VARIABLES
    strategies,        \* CryptoSignalApp.strategies, a sequence of strategy objects
    candles,           \* state.candles
    fearGreedIndex,    \* state.fearGreedIndex
    fearGreedHistory,  \* state.fearGreedHistory
    signals,           \* state.signals
    markers,           \* chart.markers, as handed to candlestickSeries.setMarkers
    signalHistory,     \* content of the signal-history container
    input,             \* SpecStrategy: the arguments of the method under call
    call,              \* SpecStrategy: the last method called, with its result
    pair,              \* state.pair
    timeframe,         \* state.timeframe
    autoUpdate,        \* state.autoUpdate
    updateInterval,    \* this.updateInterval: Null or the handle of a timer
    timers,            \* the handles of the live interval timers
    calls,             \* SpecAsync: the _fetchAllData calls made, in order
    refreshDisabled    \* elements.refreshBtn.disabled

vars == <<strategies, candles, fearGreedIndex, fearGreedHistory, signals,
          markers, signalHistory, input, call, pair, timeframe, autoUpdate,
          updateInterval, timers, calls, refreshDisabled>>

\* The variables that only SpecAsync changes.
asyncVars == <<pair, timeframe, autoUpdate, updateInterval, timers, calls,
               refreshDisabled>>

appVars == <<candles, fearGreedIndex, fearGreedHistory, signals, markers,
             signalHistory, asyncVars>>

\* The constructor's values of the selection, the auto-update flag and the
\* timer handle; no timer, no call.
ConstructorValues ==
    /\ pair = "btc_jpy"
    /\ timeframe = "1day"
    /\ autoUpdate = TRUE
    /\ updateInterval = Null
    /\ timers = {}
    /\ calls = <<>>
    /\ refreshDisabled = FALSE

NoInput == [kind |-> "none", candles |-> UndefinedArr,
            extraData |-> [fearGreedIndex |-> Undefined,
                           fearGreedHistory |-> UndefinedArr],
            index |-> Undefined, time |-> <<0, 0, 0>>]

NoCall == [op |-> "none", ret |-> Returned(<<>>)]

----------------------------------------------------------------------------
(* Bounds and input sets                                                   *)

\* Longest candle series and longest sentiment history delivered or passed.
MaxCandles == 2
MaxHistory == 2

\* Date keys of candles: 2024-01-01 and 2024-02-01.
CandleDates == {<<2024, 1, 1>>, <<2024, 2, 1>>}

\* Epoch-second timestamps as the API's strings: 2024-01-01T00:00:00Z,
\* 2024-01-01T23:59:59Z, 2024-02-01T00:00:00Z and 2024-01-05T00:00:00Z.
Jan01Midnight == Str(<<1, 7, 0, 4, 0, 6, 7, 2, 0, 0>>)
Jan01LastSecond == Str(<<1, 7, 0, 4, 1, 5, 3, 5, 9, 9>>)
Feb01Midnight == Str(<<1, 7, 0, 6, 7, 4, 5, 6, 0, 0>>)
Jan05Midnight == Str(<<1, 7, 0, 4, 4, 1, 2, 8, 0, 0>>)

\* Sequences over S of length at most n.
SeqUpTo(S, n) == UNION {[1..k -> S] : k \in 0..n}

\* Candle series as fetchCandlestickMultiYear delivers them: one candle per
\* date key, ascending by date key.
Candle(d) == [time |-> d]
IsAscending(cs) ==
    \A i \in 1..(Len(cs) - 1) : localeCompare(cs[i].time, cs[i + 1].time) < 0

\* Sentiment histories as the index API delivers them: one point per
\* timestamp, in any order.
DistinctTimestamps(h) ==
    \A i, j \in 1..Len(h) : i # j => h[i].timestamp # h[j].timestamp

\* What _fetchCandles resolves to.
FetchedCandles ==
    {Arr(cs) : cs \in {c \in SeqUpTo({Candle(d) : d \in CandleDates}, MaxCandles) :
                           IsAscending(c)}}

\* What fetchFearGreedHistory resolves to: value parsed, timestamp as sent.
\* Two points of the same day, and two values for another day.
HistoryPoint(ts, v) == [timestamp |-> ts, value |-> v]
AppPoints ==
    {HistoryPoint(Jan01Midnight, Num(5)), HistoryPoint(Jan01LastSecond, Num(90)),
     HistoryPoint(Feb01Midnight, Num(5)), HistoryPoint(Feb01Midnight, Num(90))}
FetchedHistory ==
    {Arr(h) : h \in {x \in SeqUpTo(AppPoints, MaxHistory) : DistinctTimestamps(x)}}

\* fearGreedData.value of fetchFearGreedIndex.
FetchedIndex == {Num(5)}

\* Text of a threshold input field: empty, or "150".
ThresholdTexts == {Str(<<>>), Str(<<1, 5, 0>>)}

----------------------------------------------------------------------------
(* Spec: the application                                                   *)

\* After new CryptoSignalApp(): the constructor's state, then _init up to
\* its first await (_initStrategies, new CandlestickChart).
Init ==
    /\ strategies = <<FearGreedStrategy>>
    /\ candles = Arr(<<>>)
    /\ fearGreedIndex = Null
    /\ fearGreedHistory = Arr(<<>>)
    /\ signals = <<>>
    /\ markers = <<>>
    /\ signalHistory = [content |-> "initial", items |-> <<>>]
    /\ input = NoInput
    /\ call = NoCall
    /\ ConstructorValues

\* The outputs as a record, and their assignment from one.
Outputs == [signals |-> signals, markers |-> markers, signalHistory |-> signalHistory]

SetOutputs(o) ==
    LET out == o
    IN  /\ signals' = out.signals
        /\ markers' = out.markers
        /\ signalHistory' = out.signalHistory

\* _fetchAllData() from the point its three fetches have resolved: the
\* state update, chart.setData and _recalculateSignals run without a
\* suspension point.  The pair, timeframe and refresh handlers all end
\* here.  A rejected fetch goes to the catch block, which changes none of
\* the variables.
_fetchAllData ==
    \E value \in FetchedIndex, history \in FetchedHistory, cs \in FetchedCandles :
        /\ fearGreedIndex' = value
        /\ fearGreedHistory' = history
        /\ candles' = cs
        /\ SetOutputs(_recalculateSignals(strategies, cs, value, history, Outputs))
        /\ UNCHANGED <<strategies, input, call, asyncVars>>

\* change handler of the logic-feargreed checkbox.
onLogicFearGreedChange ==
    \E checked \in BOOLEAN :
        LET i == findStrategy(strategies, "feargreed")
        IN  /\ i # 0
            /\ strategies' = [strategies EXCEPT ![i] = setEnabled(strategies[i], checked)]
            /\ SetOutputs(_recalculateSignals(strategies', candles, fearGreedIndex,
                                              fearGreedHistory, Outputs))
            /\ UNCHANGED <<candles, fearGreedIndex, fearGreedHistory, input, call,
                           asyncVars>>

\* change handler of the buy-threshold input.
onBuyThresholdChange ==
    \E text \in ThresholdTexts :
        LET i == findStrategy(strategies, "feargreed")
        IN  /\ i # 0
            /\ strategies' = [strategies EXCEPT ![i] =
                   updateSettings(strategies[i],
                       [buyThreshold |-> parseInt(text), sellThreshold |-> Undefined])]
            /\ SetOutputs(_recalculateSignals(strategies', candles, fearGreedIndex,
                                              fearGreedHistory, Outputs))
            /\ UNCHANGED <<candles, fearGreedIndex, fearGreedHistory, input, call,
                           asyncVars>>

\* change handler of the sell-threshold input.
onSellThresholdChange ==
    \E text \in ThresholdTexts :
        LET i == findStrategy(strategies, "feargreed")
        IN  /\ i # 0
            /\ strategies' = [strategies EXCEPT ![i] =
                   updateSettings(strategies[i],
                       [buyThreshold |-> Undefined, sellThreshold |-> parseInt(text)])]
            /\ SetOutputs(_recalculateSignals(strategies', candles, fearGreedIndex,
                                              fearGreedHistory, Outputs))
            /\ UNCHANGED <<candles, fearGreedIndex, fearGreedHistory, input, call,
                           asyncVars>>

Next ==
    \/ _fetchAllData
    \/ onLogicFearGreedChange
    \/ onBuyThresholdChange
    \/ onSellThresholdChange

Spec == Init /\ [][Next]_vars

----------------------------------------------------------------------------
(* SpecStrategy: the FearGreedStrategy object called directly              *)

\* Arguments of calculate: candles absent or a series; the history absent
\* or a sequence of points, one of them (2024-01-05) on a date without a
\* candle; the scalar absent, null or a value.
CalcCandles ==
    {UndefinedArr} \cup
    {Arr(cs) : cs \in {c \in SeqUpTo({Candle(d) : d \in CandleDates}, MaxCandles) :
                           IsAscending(c)}}

CalcPoints ==
    {HistoryPoint(Jan01Midnight, Num(5)), HistoryPoint(Jan01LastSecond, Num(90)),
     HistoryPoint(Jan05Midnight, Num(5)), HistoryPoint(Feb01Midnight, Num(90))}

CalcHistories ==
    {UndefinedArr} \cup
    {Arr(h) : h \in {x \in SeqUpTo(CalcPoints, MaxHistory) : DistinctTimestamps(x)}}

CalcScalars == {Undefined, Null, Num(5), Num(90)}

CalcInputs ==
    {[kind |-> "calculate", candles |-> cs,
      extraData |-> [fearGreedIndex |-> x, fearGreedHistory |-> h],
      index |-> Undefined, time |-> <<0, 0, 0>>] :
        cs \in CalcCandles, x \in CalcScalars, h \in CalcHistories}

\* Arguments of _evaluateIndex: every index of the scale, one date key.
EvalInputs ==
    {[kind |-> "_evaluateIndex", candles |-> UndefinedArr,
      extraData |-> [fearGreedIndex |-> Undefined, fearGreedHistory |-> UndefinedArr],
      index |-> Num(n), time |-> <<2024, 1, 1>>] : n \in 0..100}

\* Arguments of toChartMarker: buy and sell markers of either candle date,
\* with the text of _evaluateIndex or with an empty text.
ChartInputs ==
    {[kind |-> "toChartMarker",
      signal |-> createSignalMarker(time, type, text, "Extreme Fear", "feargreed")] :
        time \in CandleDates, type \in {"buy", "sell"}, text \in {<<>>, FGText(Num(5))}}

\* A field of the settings passed to updateSettings: absent, below the
\* range, above it, or parseInt of an empty input field.
SettingValues == {Undefined, Num(-10), Num(150), parseInt(Str(<<>>))}

InitStrategy ==
    /\ strategies = <<FearGreedStrategy>>
    /\ input \in CalcInputs \cup EvalInputs \cup ChartInputs
    /\ call = NoCall
    /\ candles = Arr(<<>>)
    /\ fearGreedIndex = Null
    /\ fearGreedHistory = Arr(<<>>)
    /\ signals = <<>>
    /\ markers = <<>>
    /\ signalHistory = [content |-> "initial", items |-> <<>>]
    /\ ConstructorValues

CallSetEnabled ==
    \E enabled \in BOOLEAN :
        /\ strategies' = [strategies EXCEPT ![1] = setEnabled(strategies[1], enabled)]
        /\ call' = [op |-> "setEnabled", ret |-> Returned(<<>>)]
        /\ UNCHANGED <<input, appVars>>

CallUpdateSettings ==
    \E b \in SettingValues, s \in SettingValues :
        /\ strategies' = [strategies EXCEPT ![1] =
               updateSettings(strategies[1], [buyThreshold |-> b, sellThreshold |-> s])]
        /\ call' = [op |-> "updateSettings", ret |-> Returned(<<>>)]
        /\ UNCHANGED <<input, appVars>>

CallCalculate ==
    /\ input.kind = "calculate"
    /\ call' = [op |-> "calculate",
                ret |-> calculate(strategies[1], input.candles, input.extraData)]
    /\ UNCHANGED <<strategies, input, appVars>>

CallEvaluateIndex ==
    /\ input.kind = "_evaluateIndex"
    /\ call' = [op |-> "_evaluateIndex",
                ret |-> Returned(_evaluateIndex(strategies[1], input.index, input.time))]
    /\ UNCHANGED <<strategies, input, appVars>>

\* The three classifiers applied to the index of the input: the strategy's
\* own, the exported helper and the badge text.
CallClassify ==
    /\ input.kind = "_evaluateIndex"
    /\ call' = [op |-> "classify",
                ret |-> Returned(<<_getClassification(input.index),
                                   getFearGreedClassification(input.index).classification,
                                   getFearGreedText(input.index)>>)]
    /\ UNCHANGED <<strategies, input, appVars>>

CallToChartMarker ==
    /\ input.kind = "toChartMarker"
    /\ call' = [op |-> "toChartMarker",
                ret |-> Returned(<<toChartMarker(input.signal)>>)]
    /\ UNCHANGED <<strategies, input, appVars>>

NextStrategy ==
    \/ CallSetEnabled
    \/ CallUpdateSettings
    \/ CallCalculate
    \/ CallEvaluateIndex
    \/ CallClassify
    \/ CallToChartMarker

SpecStrategy == InitStrategy /\ [][NextStrategy]_vars

----------------------------------------------------------------------------
(* SpecAsync: the application with its data refreshes in flight and its    *)
(* auto-update timer.  A _fetchAllData call starts in the handler that     *)
(* makes it, runs up to its await, and resumes in a later step when its    *)
(* fetches have settled, in any order with the other calls.                *)

\* At most this many _fetchAllData calls are made in a behaviour.
MaxCalls == 3

\* The options of the pair and timeframe selects that are used.
Pairs == {"btc_jpy", "eth_jpy"}
Timeframes == {"1day", "1hour"}

\* What the exchange serves: daily candles of two dates for btc_jpy and of
\* one date for eth_jpy, one candle per date key, ascending.
fetchCandlestickMultiYear(p, candleType) ==
    IF p = "btc_jpy"
    THEN Arr(<<Candle(<<2024, 1, 1>>), Candle(<<2024, 2, 1>>)>>)
    ELSE Arr(<<Candle(<<2024, 2, 1>>)>>)

\* Candles of a timeframe below the day: their time is the date alone, so
\* two candles of one day have the same date key.
fetchCandlestick(p, candleType) ==
    IF p = "btc_jpy"
    THEN Arr(<<Candle(<<2024, 1, 1>>), Candle(<<2024, 1, 1>>)>>)
    ELSE Arr(<<Candle(<<2024, 2, 1>>), Candle(<<2024, 2, 1>>)>>)

\* _fetchCandles() for the pair and timeframe read from the state when the
\* call starts.
_fetchCandles(p, tf) ==
    IF tf \in {"1day", "1week", "1month"}
    THEN fetchCandlestickMultiYear(p, tf)
    ELSE fetchCandlestick(p, tf)

\* What the index API serves: the value, and a history of a low point on
\* 2024-01-01 and a high point on 2024-02-01.
fetchFearGreedIndex == Num(5)
fetchFearGreedHistory ==
    Arr(<<HistoryPoint(Jan01Midnight, Num(5)), HistoryPoint(Feb01Midnight, Num(90))>>)

\* A _fetchAllData call: who made it, the pair and timeframe its
\* _fetchCandles read, and whether it is at its await, has resumed with the
\* results, or has gone to its catch block.
Call(origin, p, tf) ==
    [origin |-> origin, pair |-> p, timeframe |-> tf, status |-> "pending"]

\* _fetchAllData() up to its await: the button is disabled and the three
\* fetches are started for the pair and timeframe of the state.
StartFetchAllData(origin, p, tf) ==
    /\ Len(calls) < MaxCalls
    /\ calls' = Append(calls, Call(origin, p, tf))
    /\ refreshDisabled' = TRUE

dataVars == <<candles, fearGreedIndex, fearGreedHistory, signals, markers,
              signalHistory>>

timerVars == <<autoUpdate, updateInterval, timers>>

\* After new CryptoSignalApp(): _init has run to its await of the first
\* _fetchAllData, which is at its own await.
InitAsync ==
    /\ strategies = <<FearGreedStrategy>>
    /\ candles = Arr(<<>>)
    /\ fearGreedIndex = Null
    /\ fearGreedHistory = Arr(<<>>)
    /\ signals = <<>>
    /\ markers = <<>>
    /\ signalHistory = [content |-> "initial", items |-> <<>>]
    /\ input = NoInput
    /\ call = NoCall
    /\ pair = "btc_jpy"
    /\ timeframe = "1day"
    /\ autoUpdate = TRUE
    /\ updateInterval = Null
    /\ timers = {}
    /\ calls = <<Call("init", "btc_jpy", "1day")>>
    /\ refreshDisabled = TRUE

\* change handler of the pair select.
onPairChange ==
    \E value \in Pairs :
        /\ pair' = value
        /\ StartFetchAllData("pair", value, timeframe)
        /\ UNCHANGED <<strategies, input, call, dataVars, timeframe, timerVars>>

\* change handler of the timeframe select.
onTimeframeChange ==
    \E value \in Timeframes :
        /\ timeframe' = value
        /\ StartFetchAllData("timeframe", pair, value)
        /\ UNCHANGED <<strategies, input, call, dataVars, pair, timerVars>>

\* click handler of the refresh button; a disabled button gets no click.
onRefreshClick ==
    /\ ~refreshDisabled
    /\ StartFetchAllData("refresh", pair, timeframe)
    /\ UNCHANGED <<strategies, input, call, dataVars, pair, timeframe, timerVars>>

\* change handler of the auto-update checkbox.
onAutoUpdateChange ==
    \E checked \in BOOLEAN :
        LET timer == [updateInterval |-> updateInterval, timers |-> timers]
            after == IF checked THEN _startAutoUpdate(timer) ELSE _stopAutoUpdate(timer)
        IN  /\ autoUpdate' = checked
            /\ updateInterval' = after.updateInterval
            /\ timers' = after.timers
            /\ UNCHANGED <<strategies, input, call, dataVars, pair, timeframe, calls,
                           refreshDisabled>>

\* The callback of a live interval timer: a refresh if state.autoUpdate,
\* nothing otherwise.
onTimerTick ==
    \E id \in timers :
        /\ IF autoUpdate
           THEN StartFetchAllData("tick", pair, timeframe)
           ELSE UNCHANGED <<calls, refreshDisabled>>
        /\ UNCHANGED <<strategies, input, call, dataVars, pair, timeframe, timerVars>>

\* _init after its await of _fetchAllData: _startAutoUpdate().  The other
\* callers do nothing after theirs.
AfterFetchAllData(origin) ==
    LET timer == [updateInterval |-> updateInterval, timers |-> timers]
        after == IF origin = "init" THEN _startAutoUpdate(timer) ELSE timer
    IN  /\ updateInterval' = after.updateInterval
        /\ timers' = after.timers

\* _fetchAllData() from its await on, the three fetches resolved: the state
\* update, chart.setData, _recalculateSignals and the finally block.
_fetchAllDataResolved ==
    \E i \in 1..Len(calls) :
        /\ calls[i].status = "pending"
        /\ LET fearGreedData == [value |-> fetchFearGreedIndex]
               history == fetchFearGreedHistory
               cs == _fetchCandles(calls[i].pair, calls[i].timeframe)
           IN  /\ fearGreedIndex' = fearGreedData.value
               /\ fearGreedHistory' = history
               /\ candles' = cs
               /\ SetOutputs(_recalculateSignals(strategies, cs, fearGreedData.value,
                                                 history, Outputs))
        /\ calls' = [calls EXCEPT ![i].status = "resolved"]
        /\ refreshDisabled' = FALSE
        /\ AfterFetchAllData(calls[i].origin)
        /\ UNCHANGED <<strategies, input, call, pair, timeframe, autoUpdate>>

\* _fetchAllData() from its await on, a fetch rejected: the catch block
\* and the finally block.
_fetchAllDataRejected ==
    \E i \in 1..Len(calls) :
        /\ calls[i].status = "pending"
        /\ calls' = [calls EXCEPT ![i].status = "rejected"]
        /\ refreshDisabled' = FALSE
        /\ AfterFetchAllData(calls[i].origin)
        /\ UNCHANGED <<strategies, input, call, dataVars, pair, timeframe, autoUpdate>>

NextAsync ==
    \/ onPairChange
    \/ onTimeframeChange
    \/ onRefreshClick
    \/ onAutoUpdateChange
    \/ onTimerTick
    \/ _fetchAllDataResolved
    \/ _fetchAllDataRejected

SpecAsync == InitAsync /\ [][NextAsync]_vars

----------------------------------------------------------------------------
(* Properties                                                              *)

\* The strategy object of SpecStrategy, and the registered strategy of Spec.
Strategy == strategies[1]

IsNumber(x) == x.t = "number"

\* value <= threshold and value >= threshold on numbers; false on NaN.
AtMost(value, threshold) ==
    IsNumber(value) /\ IsNumber(threshold) /\ value.v <= threshold.v
AtLeast(value, threshold) ==
    IsNumber(value) /\ IsNumber(threshold) /\ value.v >= threshold.v

IsMarker(ret, type, index, time) ==
    /\ Len(ret) = 1
    /\ ret[1].type = type
    /\ ret[1].time = time
    /\ ret[1].text = <<"FG:", index>>
    /\ ret[1].strategyId = "feargreed"

FearGreedMarkers(signalSeq) ==
    {i \in 1..Len(signalSeq) : signalSeq[i].strategyId = Strategy.id}

\* C2: a disabled strategy contributes no marker: calculate returns the
\* empty sequence for every candle series and sentiment payload, and once
\* the recompute has run on non-empty candles the signal timeline holds no
\* marker of the strategy.
C2_DisabledContributesNothing ==
    ~Strategy.enabled =>
        /\ \A in \in CalcInputs :
               calculate(Strategy, in.candles, in.extraData) = Returned(<<>>)
        /\ calculate(Strategy, candles,
                     [fearGreedIndex |-> fearGreedIndex,
                      fearGreedHistory |-> fearGreedHistory]) = Returned(<<>>)
        /\ Len(candles.v) > 0 => FearGreedMarkers(signals) = {}

\* C2 witness: the strategy is disabled, the recompute has emptied the
\* timeline, and the same data would give markers were it enabled.
C2_Witness ==
    /\ ~Strategy.enabled
    /\ Len(candles.v) > 0
    /\ signals = <<>>
    /\ markers = <<>>
    /\ signalHistory.content = "no-signals"
    /\ calculate(setEnabled(Strategy, TRUE), candles,
                 [fearGreedIndex |-> fearGreedIndex,
                  fearGreedHistory |-> fearGreedHistory]).value # <<>>

\* The UTC date of each timestamp of the input sets, from the calendar.
DateKeyOf(timestamp) ==
    CASE timestamp = Jan01Midnight -> <<2024, 1, 1>>
      [] timestamp = Jan01LastSecond -> <<2024, 1, 1>>
      [] timestamp = Jan05Midnight -> <<2024, 1, 5>>
      [] timestamp = Feb01Midnight -> <<2024, 2, 1>>

CandleTimes(cs) == {cs[i].time : i \in 1..Len(cs)}

Crosses(value) ==
    AtMost(value, Strategy.buyThreshold) \/ AtLeast(value, Strategy.sellThreshold)

\* The call is calculate in historical mode: the strategy enabled, the
\* history and the candles non-empty.
HistoricalCall ==
    /\ call.op = "calculate"
    /\ Strategy.enabled
    /\ input.candles.t = "array"
    /\ Len(input.candles.v) > 0
    /\ Len(input.extraData.fearGreedHistory.v) > 0

\* C3: in historical mode calculate emits a marker for a history point if
\* and only if the point's UTC date key is the time of some candle and its
\* value crosses a threshold; the markers are in the order of the history,
\* each at its point's date key, and no error is raised.
C3_HistoricalMode ==
    HistoricalCall =>
        LET history == input.extraData.fearGreedHistory.v
            times == CandleTimes(input.candles.v)
            ret == call.ret.value
            kept == {i \in 1..Len(history) :
                        /\ DateKeyOf(history[i].timestamp) \in times
                        /\ Crosses(history[i].value)}
            rank(i) == Cardinality({j \in kept : j <= i})
        IN  /\ ~call.ret.threw
            /\ Len(ret) = Cardinality(kept)
            /\ \A i \in kept :
                   /\ ret[rank(i)].time = DateKeyOf(history[i].timestamp)
                   /\ ret[rank(i)].text = <<"FG:", history[i].value>>
                   /\ ret[rank(i)].type =
                          IF AtMost(history[i].value, Strategy.buyThreshold)
                          THEN "buy" ELSE "sell"
            /\ \A k \in 1..Len(ret) : ret[k].time \in times

\* C3 witness: candles of 2024-01-01 and 2024-02-01, a history of the
\* unmatched 2024-01-05 point followed by a 2024-01-01 point, thresholds
\* 20/80: the result is the one buy marker at 2024-01-01.
C3_Witness ==
    /\ HistoricalCall
    /\ Strategy.buyThreshold = Num(20)
    /\ Strategy.sellThreshold = Num(80)
    /\ CandleTimes(input.candles.v) = {<<2024, 1, 1>>, <<2024, 2, 1>>}
    /\ input.extraData.fearGreedHistory.v =
           <<HistoryPoint(Jan05Midnight, Num(5)), HistoryPoint(Jan01Midnight, Num(5))>>
    /\ IsMarker(call.ret.value, "buy", Num(5), <<2024, 1, 1>>)

\* C4: when the history and the candles are both non-empty the scalar
\* sentiment value is ignored: the result is the one for an absent scalar
\* and every marker comes from a history point.  Otherwise, with a scalar
\* and non-empty candles, at most one marker is returned, at the time of
\* the last candle.
C4_LiveModeOnlyWithoutHistory ==
    (call.op = "calculate" /\ input.candles.t = "array" /\ Len(input.candles.v) > 0) =>
        LET history == input.extraData.fearGreedHistory.v
            ret == call.ret.value
            cs == input.candles.v
        IN  IF Len(history) > 0
            THEN /\ call.ret = calculate(Strategy, input.candles,
                                [fearGreedIndex |-> Undefined,
                                 fearGreedHistory |-> input.extraData.fearGreedHistory])
                 /\ \A k \in 1..Len(ret) : \E i \in 1..Len(history) :
                        /\ ret[k].time = DateKeyOf(history[i].timestamp)
                        /\ ret[k].text = <<"FG:", history[i].value>>
            ELSE input.extraData.fearGreedIndex # Undefined =>
                    /\ ~call.ret.threw
                    /\ Len(ret) <= 1
                    /\ \A k \in 1..Len(ret) :
                           /\ ret[k].time = cs[Len(cs)].time
                           /\ ret[k].text = <<"FG:", input.extraData.fearGreedIndex>>

\* C4 witness: an enabled strategy with thresholds 20/80, a history whose
\* only point (2024-01-05) matches no candle, a scalar of 5 that would give
\* a buy marker: the result is empty.
C4_Witness ==
    /\ HistoricalCall
    /\ Strategy.buyThreshold = Num(20)
    /\ Strategy.sellThreshold = Num(80)
    /\ input.extraData.fearGreedHistory.v = <<HistoryPoint(Jan05Midnight, Num(5))>>
    /\ input.extraData.fearGreedIndex = Num(5)
    /\ call.ret = Returned(<<>>)

\* C4 witness of the live mode: no history, scalar 5, two candles; the one
\* marker is at the last candle.
C4_WitnessLive ==
    /\ call.op = "calculate"
    /\ Len(input.extraData.fearGreedHistory.v) = 0
    /\ input.candles = Arr(<<Candle(<<2024, 1, 1>>), Candle(<<2024, 2, 1>>)>>)
    /\ IsMarker(call.ret.value, "buy", Num(5), <<2024, 2, 1>>)

\* C5 as stated: for an empty or absent candle series, or an empty or
\* absent history together with an undefined or null scalar, calculate
\* returns the empty sequence and raises no error.
C5_InsufficientInputsAsStated ==
    (/\ call.op = "calculate"
     /\ \/ Len(input.candles.v) = 0
        \/ /\ Len(input.extraData.fearGreedHistory.v) = 0
           /\ input.extraData.fearGreedIndex \in {Undefined, Null})
        => call.ret = Returned(<<>>)

InRange(threshold) == IsNumber(threshold) /\ 0 <= threshold.v /\ threshold.v <= 100

\* C6 as stated: after any sequence of threshold updates, the parse of an
\* empty input field included, buyThreshold and sellThreshold both lie in
\* [0, 100].
C6_ThresholdsInRangeAsStated ==
    InRange(Strategy.buyThreshold) /\ InRange(Strategy.sellThreshold)

\* The markers the enabled strategies emit for the current state, in
\* registration order and, within a strategy, in emission order.
EmittedSignals ==
    collectSignals(strategies, candles,
                   [fearGreedIndex |-> fearGreedIndex,
                    fearGreedHistory |-> fearGreedHistory], <<>>).value

SameKey(a, b) == a.time = b.time /\ a.type = b.type

DateKeyAtOrAfter(a, b) ==
    \/ a[1] > b[1]
    \/ a[1] = b[1] /\ a[2] > b[2]
    \/ a[1] = b[1] /\ a[2] = b[2] /\ a[3] >= b[3]

\* C8: the signal timeline is ordered by time descending: each marker's
\* date key is at or after the next one's.
C8_TimelineDescending ==
    \A i \in 1..(Len(signals) - 1) :
        DateKeyAtOrAfter(signals[i].time, signals[i + 1].time)

\* C8 witness: the strategy emitted an earlier date before a later one and
\* the timeline holds the later one first.
C8_Witness ==
    /\ Len(candles.v) > 0
    /\ Len(EmittedSignals) = 2
    /\ EmittedSignals[1].time = <<2024, 1, 1>>
    /\ EmittedSignals[2].time = <<2024, 2, 1>>
    /\ signals = <<EmittedSignals[2], EmittedSignals[1]>>

\* C9: a recompute on an empty candle series leaves the signal timeline,
\* the chart markers and the signal-history display as they were.  (Every
\* handler ends with the recompute, on the candles it leaves in the state.)
C9_EmptyCandlesNoOp ==
    [][Len(candles'.v) = 0 => UNCHANGED <<signals, markers, signalHistory>>]_vars

\* C9 witness: the candle series is empty, the strategy has been disabled,
\* and the timeline, markers and display of an earlier recompute remain.
C9_Witness ==
    /\ Len(candles.v) = 0
    /\ ~Strategy.enabled
    /\ Len(signals) = 2
    /\ Len(markers) = 2
    /\ signalHistory.content = "signal-items"

\* C10: a recompute with the candles, the sentiment value, the sentiment
\* history and the strategy state of the previous one gives the same
\* timeline, chart markers and display.
C10_RecomputeIdempotent ==
    [][UNCHANGED <<strategies, candles, fearGreedIndex, fearGreedHistory>>
          => UNCHANGED <<signals, markers, signalHistory>>]_vars

\* C10 witness: a timeline of two markers computed from non-empty candles,
\* with the buy threshold at 100, where a further input of "150" runs the
\* recompute again on the same strategy state.
C10_Witness ==
    /\ Len(candles.v) > 0
    /\ Len(signals) = 2
    /\ signals[1].time # signals[2].time
    /\ Strategy.buyThreshold = Num(100)
    /\ updateSettings(Strategy, [buyThreshold |-> parseInt(Str(<<1, 5, 0>>)),
                                 sellThreshold |-> Undefined]) = Strategy

\* The bucket of section 4.2 for an integer of the scale.
Bucket(n) ==
    CASE n \in 0..20 -> "Extreme Fear"
      [] n \in 21..40 -> "Fear"
      [] n \in 41..60 -> "Neutral"
      [] n \in 61..80 -> "Greed"
      [] n \in 81..100 -> "Extreme Greed"

\* C11: for every integer 0..100 exactly one of the five buckets applies
\* (0..20 Extreme Fear, 21..40 Fear, 41..60 Neutral, 61..80 Greed, 81..100
\* Extreme Greed), and _getClassification, getFearGreedClassification and
\* getFearGreedText all return that bucket.
C11_ClassificationCover ==
    call.op = "classify" =>
        LET n == input.index.v
            ranges == <<0..20, 21..40, 41..60, 61..80, 81..100>>
        IN  /\ n \in 0..100
            /\ Cardinality({b \in 1..5 : n \in ranges[b]}) = 1
            /\ \A k \in 1..3 : call.ret.value[k] = Bucket(n)

\* C11 witness: the classifiers have been applied at the boundary 40 and
\* all returned "Fear".
C11_Witness ==
    /\ call.op = "classify"
    /\ input.index = Num(40)
    /\ call.ret.value = <<"Fear", "Fear", "Fear">>

\* C12: toChartMarker maps a buy marker to below the bar, green, up arrow
\* and a sell marker to above the bar, red, down arrow; the time is the
\* marker's; the label is the marker's text, or "Buy" / "Sell" when the
\* text is empty.
C12_Projection ==
    call.op = "toChartMarker" =>
        LET signal == input.signal
            marker == call.ret.value[1]
        IN  /\ Len(call.ret.value) = 1
            /\ marker.time = signal.time
            /\ signal.type = "buy" =>
                   /\ marker.position = "belowBar"
                   /\ marker.color = "#00d26a"
                   /\ marker.shape = "arrowUp"
                   /\ marker.text = IF signal.text = <<>> THEN <<"Buy">> ELSE signal.text
            /\ signal.type = "sell" =>
                   /\ marker.position = "aboveBar"
                   /\ marker.color = "#ff6b6b"
                   /\ marker.shape = "arrowDown"
                   /\ marker.text = IF signal.text = <<>> THEN <<"Sell">> ELSE signal.text

\* C12 witness: a sell marker with an empty text has been projected to a
\* chart marker labelled "Sell".
C12_Witness ==
    /\ call.op = "toChartMarker"
    /\ input.signal.type = "sell"
    /\ input.signal.text = <<>>
    /\ call.ret.value[1].text = <<"Sell">>
    /\ call.ret.value[1].position = "aboveBar"

\* The number of positions of a sequence holding x.
Occurrences(seq, x) == Cardinality({i \in 1..Len(seq) : seq[i] = x})

\* C13: the markers handed to the chart are ordered by time ascending and
\* are the projections of the markers of the signal timeline, one for
\* each; for an empty timeline the chart has no markers.
C13_ChartMarkersAscending ==
    LET projected == [i \in 1..Len(signals) |-> toChartMarker(signals[i])]
    IN  /\ \A i \in 1..(Len(markers) - 1) :
               DateKeyAtOrAfter(markers[i + 1].time, markers[i].time)
        /\ Len(markers) = Len(signals)
        /\ \A i \in 1..Len(projected) :
               Occurrences(markers, projected[i]) = Occurrences(projected, projected[i])
        /\ signals = <<>> => markers = <<>>

\* C13 witness: a timeline of 2024-02-01 before 2024-01-01 whose chart
\* markers are those of 2024-01-01 and then 2024-02-01.
C13_Witness ==
    /\ Len(signals) = 2
    /\ signals[1].time = <<2024, 2, 1>>
    /\ signals[2].time = <<2024, 1, 1>>
    /\ markers = <<toChartMarker(signals[2]), toChartMarker(signals[1])>>

\* C13 witness of the clearing: the strategy was disabled with candles in
\* the state, the timeline is empty and the chart has no markers.
C13_WitnessCleared ==
    /\ Len(candles.v) > 0
    /\ ~Strategy.enabled
    /\ signalHistory.content = "no-signals"
    /\ markers = <<>>

\* The index of the call is both <= buyThreshold and >= sellThreshold.
BothPredicates ==
    /\ call.op = "_evaluateIndex"
    /\ AtMost(input.index, Strategy.buyThreshold)
    /\ AtLeast(input.index, Strategy.sellThreshold)

C16_SignalsOnStoredCandlesAsStated ==
    \A i \in 1..Len(signals) : signals[i].time \in CandleTimes(candles.v)

\* Every _fetchAllData call made so far has resumed with its results.
AllResolved == \A i \in 1..Len(calls) : calls[i].status = "resolved"

\* The signal timeline computed from the data served for a pair and
\* timeframe.
TimelineOf(p, tf) ==
    _deduplicateSignals(
        collectSignals(strategies, _fetchCandles(p, tf),
                       [fearGreedIndex |-> fetchFearGreedIndex,
                        fearGreedHistory |-> fetchFearGreedHistory], <<>>).value)

\* C15 as stated: once two or more _fetchAllData calls have all completed,
\* in whatever order, the stored candles, sentiment data and signal
\* timeline are those of the call initiated last, which are those of the
\* selected pair and timeframe.
C15_LaterCallSupersedesAsStated ==
    (Len(calls) >= 2 /\ AllResolved) =>
        LET last == calls[Len(calls)]
        IN  /\ last.pair = pair
            /\ last.timeframe = timeframe
            /\ candles = _fetchCandles(last.pair, last.timeframe)
            /\ fearGreedIndex = fetchFearGreedIndex
            /\ fearGreedHistory = fetchFearGreedHistory
            /\ signals = TimelineOf(last.pair, last.timeframe)

\* A step in which the timer callback starts a refresh.
TickRefreshes ==
    /\ Len(calls') = Len(calls) + 1
    /\ calls'[Len(calls')].origin = "tick"

\* C17: at most one interval timer is live at a time, and it is the one
\* whose handle is in updateInterval; switching auto-update off leaves no
\* timer and switching it on leaves one; the timer callback starts a
\* refresh only in a state where state.autoUpdate is true.
C17_SingleTimer ==
    /\ [](/\ Cardinality(timers) <= 1
          /\ timers = IF updateInterval = Null THEN {} ELSE {updateInterval.v})
    /\ [][(autoUpdate /\ ~autoUpdate') => timers' = {}]_vars
    /\ [][(~autoUpdate /\ autoUpdate') => Cardinality(timers') = 1]_vars
    /\ [][TickRefreshes => (autoUpdate /\ timers # {})]_vars

\* C17 witness: _init has started the timer, auto-update is on, a refresh
\* started by the timer callback is in flight, and one timer is live.
C17_Witness ==
    /\ autoUpdate
    /\ calls[1].status # "pending"
    /\ Cardinality(timers) = 1
    /\ updateInterval # Null
    /\ \E i \in 1..Len(calls) : calls[i].origin = "tick" /\ calls[i].status = "pending"

\* C17 witness of the idle timer: auto-update was switched off during the
\* first fetch, _init then started the timer, and no call came from it.
C17_WitnessIdleTimer ==
    /\ ~autoUpdate
    /\ Cardinality(timers) = 1
    /\ Len(calls) = 1
    /\ calls[1].status = "resolved"

====
